---- MODULE Spec2Model ----
(***************************************************************************)
(* Model of the bounded, backpressure-enforcing pipeline coordinator       *)
(* (workCoordinator) of rule-1: an admission semaphore, three bounded      *)
(* stage channels drained by fixed worker pools, and mutex-protected       *)
(* metrics counters.                                                       *)
(*                                                                         *)
(* Every SubmitJob call is one job j; pc[j] is the position of the         *)
(* goroutine that currently owns the job (the caller inside SubmitJob, or  *)
(* the stage worker that received it) or the channel the job sits in.      *)
(* Workers of one pool are interchangeable, so a pool is modelled by the   *)
(* number of its workers that are busy with a job and the number that have *)
(* returned from their loop.  Timers (time.After) may fire at any moment a *)
(* select is waiting; a select with several ready cases picks any of them. *)
(***************************************************************************)
EXTENDS Integers, Sequences, FiniteSets, TLC

\* ------------------------------------------------------------------ bounds
\* Number of SubmitJob calls made in a run.
MaxJobs == 2
\* newWorkCoordinator(maxConcurrent) is called with 1..MaxConcurrentLimit.
MaxConcurrentLimit == 2
\* Size of the first worker pool.  newWorkCoordinator fixes the pools at
\* 5, 3, 2 and gives each stage channel the capacity of its pool; the model
\* keeps these proportions at a smaller scale.
stage1Workers == 1
\* Rule 2: number of producer goroutines, and calls of producer() each makes.
MaxProducers == 2
MaxSignals == 2
\* workSignal := make(chan struct{}, 1)
LatchCap == 1
\* time.Sleep(time.Duration(50+rand.Intn(50)) * time.Millisecond) and the
\* like in processStage2, processStage3.
Stage1MinMs == 50
Stage1JitterMs == 50
Stage2MinMs == 100
Stage2JitterMs == 100
Stage3MinMs == 200
Stage3JitterMs == 300
\* Longest time (ms) the item spends waiting before a step: in a select of
\* SubmitJob, in a stage channel, or oversleeping.
MaxWait == 7
\* brokenService: requests made in a run; capacity of s.stage1Chan (10000 in
\* newBrokenService) and size of its stage-1 pool (5 in Start), scaled down.
MaxRequests == 3
BrokenStage1Cap == 1
brokenStage1Workers == 1
\* part_000: signals sent on workSignal before it is closed, and the number
\* of checkForWork() runs made without a signal that the model counts up to.
MaxSent == 3
MaxSpins == 3
stage2Workers == (stage1Workers + 1) \div 2
stage3Workers == (stage2Workers + 1) \div 2
Stage1Cap == stage1Workers
Stage2Cap == stage2Workers
Stage3Cap == stage3Workers

Jobs == 1..MaxJobs
Stages == 1..3

\* Goroutines that call the metrics methods: for each job the goroutine that
\* currently owns it, and one goroutine serving HealthCheck.
Observer == MaxJobs + 1
MetricCallers == Jobs \cup {Observer}
NoCall == [fn |-> "none", completed |-> FALSE]

Producers == 1..MaxProducers

Requests == 1..MaxRequests

\* The loops of part_000: Loop 1 ("bare"), the explicit receive with the ok
\* test ("explicit"), and Loop 2 ("range").
Loops == {"bare", "explicit", "range"}

Waits == {0, MaxWait}
\* rand.Intn(n) yields 0..n-1; the model takes the two ends.
Jitter(n) == {0, n - 1}

VARIABLES
    maxConcurrent,  \* cap(workSemaphore), fixed at construction
    workSemaphore,  \* number of tokens in the semaphore channel
    stage1Chan,     \* buffered channels: sequences of job ids
    stage2Chan,
    stage3Chan,
    activeJobs,     \* metrics
    rejectedJobs,
    completedJobs,
    wcCtxDone,      \* wc.ctx is cancelled (Stop was called)
    started,        \* Start was called: the worker pools run
    exited,         \* exited[n]: workers of stage n that left their loop
    pc,             \* pc[j]: where job j is
    jobCtxDone,     \* jobCtxDone[j]: the ctx passed to SubmitJob is cancelled
    acquired,       \* history: sends of job j's goroutines to workSemaphore
    released,       \* history: receives from workSemaphore made for job j
    tracked,        \* history: trackJobStart minus trackJobEnd calls for j
    cancelledInQ2,  \* history: j's ctx was cancelled while j sat in stage2Chan
    mu,             \* wc.mu: 0 when unlocked, else the goroutine holding it
    mpc,            \* mpc[g]: position of goroutine g inside a metrics method
    mcall,          \* mcall[g]: the metrics method g is executing, its argument
    mphase,         \* mphase[j]: "new", "active" (trackJobStart done), "over"
    observed,       \* the values the last GetMetrics call read
    workSignal,     \* rule 2: number of signals in the buffered(1) channel
    producerPc,     \* producerPc[p]: "idle", or "select" inside producer()
    signals,        \* signals[p]: calls of producer() that p has made
    managerPc,      \* "recv" at <-workSignal, "check" inside checkForWork()
    burst,          \* history: signals issued since checkForWork last began
    now,            \* the clock, in milliseconds
    tpc,            \* the timed item: "new", "created", "s1", "s2", "done"
    jobCreatedAt,   \* job.CreatedAt, stamped in SubmitJob
    resultCreatedAt,\* stage1Result.CreatedAt, handed from stage to stage
    latency,        \* the latency processStage3 passes to trackJobEnd
    activeGoroutines,  \* brokenService.activeGoroutines
    brokenStage1Chan,  \* brokenService: number of jobs in s.stage1Chan
    brokenBusy,     \* brokenService: stage-1 workers holding a job
    reqPc,          \* reqPc[r]: the goroutine HandleRequest spawns for r
    answered,       \* answered[r]: what HandleRequest wrote to the client
    sent,           \* part_000: signals sent on workSignal so far
    closed,         \* part_000: close(workSignal) was called
    taken,          \* taken[l]: signals loop l has received
    loopPc,         \* loopPc[l]: "recv", "test", "check", "returned"
    ok,             \* the ok of the explicit loop's last receive
    checks,         \* checks[l]: runs of checkForWork() loop l has finished
    spins           \* spins[l]: receives of l that yielded no signal

\* The fields of wc.mu's critical sections seen one statement at a time.
muVars == <<mu, mpc, mcall, mphase, observed>>

\* The latch of rule 2 with its producers and its manager.
latchVars == <<workSignal, producerPc, signals, managerPc, burst>>

\* One item followed through the pipeline with the clock.
timeVars == <<now, tpc, jobCreatedAt, resultCreatedAt, latency>>

\* The service of bad_design.go.
brokenVars == <<activeGoroutines, brokenStage1Chan, brokenBusy, reqPc, answered>>

\* The loops of part_000, each reading its own copy of the same channel.
loopVars == <<sent, closed, taken, loopPc, ok, checks, spins>>

\* Everything that is not a field of workCoordinator's pipeline.
others == <<muVars, latchVars, timeVars, brokenVars, loopVars>>

vars == <<maxConcurrent, workSemaphore, stage1Chan, stage2Chan, stage3Chan,
          activeJobs, rejectedJobs, completedJobs, wcCtxDone, started, exited, pc,
          jobCtxDone, acquired, released, tracked, cancelledInQ2, others>>

chans == <<stage1Chan, stage2Chan, stage3Chan>>
metrics == <<activeJobs, rejectedJobs, completedJobs>>
history == <<acquired, released, tracked>>
control == <<maxConcurrent, wcCtxDone, started, exited>>

\* ----------------------------------------------------------------- helpers
InChan(ch, j) == \E i \in 1..Len(ch) : ch[i] = j

\* Positions at which a stage worker holds the job.
Stage1Phases == {"h1", "rel1", "end1"}
Stage2Phases == {"h2"}
Stage3Phases == {"p3", "end3"}

\* Positions a job never leaves.
FinalPhases == {"rejected", "degraded", "abandoned", "completed",
                "dropped1", "dropped2"}

Busy(S) == Cardinality({j \in Jobs : pc[j] \in S})

PoolSize(n) == IF n = 1 THEN stage1Workers
               ELSE IF n = 2 THEN stage2Workers ELSE stage3Workers

StagePhases(n) == IF n = 1 THEN Stage1Phases
                  ELSE IF n = 2 THEN Stage2Phases ELSE Stage3Phases

\* Workers of stage n waiting in the select at the top of their loop.
Idle(n) ==
    IF started THEN PoolSize(n) - exited[n] - Busy(StagePhases(n)) ELSE 0

Goto(j, p) == pc' = [pc EXCEPT ![j] = p]

\* ------------------------------------------------------------------- Init
Init ==
    /\ maxConcurrent \in 1..MaxConcurrentLimit
    /\ workSemaphore = 0
    /\ stage1Chan = <<>>
    /\ stage2Chan = <<>>
    /\ stage3Chan = <<>>
    /\ activeJobs = 0
    /\ rejectedJobs = 0
    /\ completedJobs = 0
    /\ wcCtxDone = FALSE
    /\ started = FALSE
    /\ exited = [n \in Stages |-> 0]
    /\ pc = [j \in Jobs |-> "idle"]
    /\ jobCtxDone = [j \in Jobs |-> FALSE]
    /\ acquired = [j \in Jobs |-> 0]
    /\ released = [j \in Jobs |-> 0]
    /\ tracked = [j \in Jobs |-> 0]
    /\ cancelledInQ2 = [j \in Jobs |-> FALSE]
    /\ mu = 0
    /\ mpc = [g \in MetricCallers |-> "out"]
    /\ mcall = [g \in MetricCallers |-> NoCall]
    /\ mphase = [j \in Jobs |-> "new"]
    /\ observed = <<0, 0, 0>>
    /\ workSignal = 0
    /\ producerPc = [p \in Producers |-> "idle"]
    /\ signals = [p \in Producers |-> 0]
    /\ managerPc = "recv"
    /\ burst = 0
    /\ now = 0
    /\ tpc = "new"
    /\ jobCreatedAt = 0
    /\ resultCreatedAt = 0
    /\ latency = 0
    /\ activeGoroutines = 0
    /\ brokenStage1Chan = 0
    /\ brokenBusy = 0
    /\ reqPc = [r \in Requests |-> "idle"]
    /\ answered = [r \in Requests |-> "none"]
    /\ sent = 0
    /\ closed = FALSE
    /\ taken = [l \in Loops |-> 0]
    /\ loopPc = [l \in Loops |-> "recv"]
    /\ ok = TRUE
    /\ checks = [l \in Loops |-> 0]
    /\ spins = [l \in Loops |-> 0]

\* ---------------------------------------------------------------- metrics
trackJobStart(j) ==
    /\ activeJobs' = activeJobs + 1
    /\ tracked' = [tracked EXCEPT ![j] = @ + 1]
    /\ UNCHANGED <<rejectedJobs, completedJobs>>

\* Variant: the active count is not decremented when a job ends.
trackJobEnd_NoDecrement(j, completed) ==
    /\ activeJobs' = activeJobs
    /\ completedJobs' = IF completed THEN completedJobs + 1 ELSE completedJobs
    /\ tracked' = [tracked EXCEPT ![j] = @ - 1]
    /\ UNCHANGED rejectedJobs

trackJobEnd(j, completed) ==
    /\ activeJobs' = activeJobs - 1
    /\ completedJobs' = IF completed THEN completedJobs + 1 ELSE completedJobs
    /\ tracked' = [tracked EXCEPT ![j] = @ - 1]
    /\ UNCHANGED rejectedJobs

\* Variant: a rejection is also booked as the end of an active job.
recordRejection_AsJobEnd ==
    /\ rejectedJobs' = rejectedJobs + 1
    /\ activeJobs' = activeJobs - 1
    /\ UNCHANGED completedJobs

recordRejection ==
    /\ rejectedJobs' = rejectedJobs + 1
    /\ UNCHANGED <<activeJobs, completedJobs>>

\* <-wc.workSemaphore: blocks while the semaphore channel is empty.
releaseSemaphore(j) ==
    /\ workSemaphore > 0
    /\ workSemaphore' = workSemaphore - 1
    /\ released' = [released EXCEPT ![j] = @ + 1]

\* ------------------------------------------- the metrics methods, by statement
\* Above, a metrics method is one step.  Here each is taken apart into
\* wc.mu.Lock(), the statements between Lock and Unlock, and wc.mu.Unlock().
\* The goroutines of job j call recordRejection, or trackJobStart and later
\* trackJobEnd; the Observer calls GetMetrics again and again.
pipeline == <<maxConcurrent, workSemaphore, chans, wcCtxDone, started, exited,
              pc, jobCtxDone, acquired, released, cancelledInQ2>>

notMu == <<pipeline, latchVars, timeVars, brokenVars, loopVars>>

EnterMetric(g, f, c) ==
    /\ mpc[g] = "out"
    /\ mcall' = [mcall EXCEPT ![g] = [fn |-> f, completed |-> c]]
    /\ mpc' = [mpc EXCEPT ![g] = "lock"]
    /\ UNCHANGED <<mu, mphase, observed, metrics, tracked, notMu>>

CallTrackJobStart(j) ==
    /\ mphase[j] = "new"
    /\ EnterMetric(j, "trackJobStart", FALSE)

CallTrackJobEnd(j, completed) ==
    /\ mphase[j] = "active"
    /\ EnterMetric(j, "trackJobEnd", completed)

CallRecordRejection(j) ==
    /\ mphase[j] = "new"
    /\ EnterMetric(j, "recordRejection", FALSE)

CallGetMetrics ==
    EnterMetric(Observer, "GetMetrics", FALSE)

\* wc.mu.Lock() returns once the mutex is free.
MuLock(g) ==
    /\ mpc[g] = "lock"
    /\ mu = 0
    /\ mu' = g
    /\ mpc' = [mpc EXCEPT ![g] = "held"]
    /\ UNCHANGED <<mcall, mphase, observed, metrics, tracked, notMu>>

\* The statements between Lock and Unlock.
MuUpdate(g) ==
    /\ mpc[g] = "held"
    /\ mpc' = [mpc EXCEPT ![g] = "unlock"]
    /\ CASE mcall[g].fn = "trackJobStart" ->
              trackJobStart(g) /\ UNCHANGED observed
         [] mcall[g].fn = "trackJobEnd" ->
              trackJobEnd(g, mcall[g].completed) /\ UNCHANGED observed
         [] mcall[g].fn = "recordRejection" ->
              recordRejection /\ UNCHANGED <<tracked, observed>>
         [] mcall[g].fn = "GetMetrics" ->
              /\ observed' = <<activeJobs, completedJobs, rejectedJobs>>
              /\ UNCHANGED <<metrics, tracked>>
    /\ UNCHANGED <<mu, mcall, mphase, notMu>>

\* Variant: the method returns without unlocking.
MuUnlock_Forget(g) ==
    /\ mpc[g] = "unlock"
    /\ mpc' = [mpc EXCEPT ![g] = "out"]
    /\ mcall' = [mcall EXCEPT ![g] = NoCall]
    /\ mphase' = IF g \in Jobs
                 THEN [mphase EXCEPT ![g] =
                          IF mcall[g].fn = "trackJobStart"
                          THEN "active" ELSE "over"]
                 ELSE mphase
    /\ UNCHANGED <<mu, observed, metrics, tracked, notMu>>

\* wc.mu.Unlock() and return.
MuUnlock(g) ==
    /\ mpc[g] = "unlock"
    /\ mu' = 0
    /\ mpc' = [mpc EXCEPT ![g] = "out"]
    /\ mcall' = [mcall EXCEPT ![g] = NoCall]
    /\ mphase' = IF g \in Jobs
                 THEN [mphase EXCEPT ![g] =
                          IF mcall[g].fn = "trackJobStart"
                          THEN "active" ELSE "over"]
                 ELSE mphase
    /\ UNCHANGED <<observed, metrics, tracked, notMu>>

MetricStep(g) ==
    \/ MuLock(g)
    \/ MuUpdate(g)
    \/ MuUnlock(g)

NextMetrics ==
    \/ \E j \in Jobs : CallTrackJobStart(j)
    \/ \E j \in Jobs, completed \in BOOLEAN : CallTrackJobEnd(j, completed)
    \/ \E j \in Jobs : CallRecordRejection(j)
    \/ CallGetMetrics
    \/ \E g \in MetricCallers : MetricStep(g)

MetricsSpec == Init /\ [][NextMetrics]_vars

\* ------------------------------------------- rule 2: the buffered(1) latch
coordinator == <<pipeline, metrics, tracked>>

notLatch == <<coordinator, muVars, timeVars, brokenVars, loopVars>>

\* A goroutine calls producer().
ProducerCall(p) ==
    /\ producerPc[p] = "idle"
    /\ signals[p] < MaxSignals
    /\ producerPc' = [producerPc EXCEPT ![p] = "select"]
    /\ signals' = [signals EXCEPT ![p] = @ + 1]
    /\ UNCHANGED <<workSignal, managerPc, burst, notLatch>>

\* Variant: the channel is a queue of 8 wake-ups.
ProducerSend_Queue(p) ==
    /\ producerPc[p] = "select"
    /\ workSignal < 8
    /\ workSignal' = workSignal + 1
    /\ burst' = burst + 1
    /\ producerPc' = [producerPc EXCEPT ![p] = "idle"]
    /\ UNCHANGED <<signals, managerPc, notLatch>>

\* case workSignal <- struct{}{}: the buffer has room.
ProducerSend(p) ==
    /\ producerPc[p] = "select"
    /\ workSignal < LatchCap
    /\ workSignal' = workSignal + 1
    /\ burst' = burst + 1
    /\ producerPc' = [producerPc EXCEPT ![p] = "idle"]
    /\ UNCHANGED <<signals, managerPc, notLatch>>

\* Variant: the select has no default case.
ProducerDefault_Never(p) ==
    /\ FALSE
    /\ UNCHANGED vars

\* default: taken when the send cannot proceed (already signaled).
ProducerDefault(p) ==
    /\ producerPc[p] = "select"
    /\ workSignal = LatchCap
    /\ burst' = burst + 1
    /\ producerPc' = [producerPc EXCEPT ![p] = "idle"]
    /\ UNCHANGED <<workSignal, signals, managerPc, notLatch>>

ProducerStep(p) ==
    \/ ProducerSend(p)
    \/ ProducerDefault(p)

\* <-workSignal returns; the manager goes on to checkForWork().
ManagerRecv ==
    /\ managerPc = "recv"
    /\ workSignal > 0
    /\ workSignal' = workSignal - 1
    /\ managerPc' = "check"
    /\ burst' = 0
    /\ UNCHANGED <<producerPc, signals, notLatch>>

\* checkForWork() returns; back to the receive.
ManagerCheckDone ==
    /\ managerPc = "check"
    /\ managerPc' = "recv"
    /\ UNCHANGED <<workSignal, producerPc, signals, burst, notLatch>>

NextLatch ==
    \/ \E p \in Producers : ProducerCall(p)
    \/ \E p \in Producers : ProducerStep(p)
    \/ ManagerRecv
    \/ ManagerCheckDone

\* Producers and a manager that may be stalled for any length of time.
LatchSpec == Init /\ [][NextLatch]_vars

\* The same with a manager goroutine that the scheduler keeps running.
LatchLiveSpec ==
    /\ Init
    /\ [][NextLatch]_vars
    /\ WF_vars(ManagerRecv)
    /\ WF_vars(ManagerCheckDone)

\* --------------------------------------------- one item against the clock
notTimed == <<coordinator, muVars, latchVars, brokenVars, loopVars>>

\* SubmitJob is called w ms after the start and stamps the job:
\* CreatedAt: time.Now().
StampJob(w) ==
    /\ tpc = "new"
    /\ now' = now + w
    /\ jobCreatedAt' = now'
    /\ tpc' = "created"
    /\ UNCHANGED <<resultCreatedAt, latency, notTimed>>

\* Variant: the result is stamped anew, CreatedAt: time.Now().
TimedStage1_Restamp(w, r) ==
    /\ tpc = "created"
    /\ now' = now + w + Stage1MinMs + r
    /\ resultCreatedAt' = now'
    /\ tpc' = "s1"
    /\ UNCHANGED <<jobCreatedAt, latency, notTimed>>

\* After w ms in SubmitJob and stage1Chan, processStage1 sleeps and builds
\* the result with CreatedAt: job.CreatedAt.
TimedStage1(w, r) ==
    /\ tpc = "created"
    /\ now' = now + w + Stage1MinMs + r
    /\ resultCreatedAt' = jobCreatedAt
    /\ tpc' = "s1"
    /\ UNCHANGED <<jobCreatedAt, latency, notTimed>>

\* processStage2 sleeps; it changes result.Processed and result.Stage only.
TimedStage2(w, r) ==
    /\ tpc = "s1"
    /\ now' = now + w + Stage2MinMs + r
    /\ tpc' = "s2"
    /\ UNCHANGED <<jobCreatedAt, resultCreatedAt, latency, notTimed>>

\* processStage3 sleeps, releases, then latency := time.Since(result.CreatedAt).
TimedStage3(w, r) ==
    /\ tpc = "s2"
    /\ now' = now + w + Stage3MinMs + r
    /\ latency' = now' - resultCreatedAt
    /\ tpc' = "done"
    /\ UNCHANGED <<jobCreatedAt, resultCreatedAt, notTimed>>

NextTimed ==
    \/ \E w \in Waits : StampJob(w)
    \/ \E w \in Waits, r \in Jitter(Stage1JitterMs) : TimedStage1(w, r)
    \/ \E w \in Waits, r \in Jitter(Stage2JitterMs) : TimedStage2(w, r)
    \/ \E w \in Waits, r \in Jitter(Stage3JitterMs) : TimedStage3(w, r)

TimedSpec == Init /\ [][NextTimed]_vars

\* ------------------------------------------------- part_000: the two loops
\* The three loops run side by side.  Each reads its own copy of workSignal;
\* the copies are fed the same sequence of signals and closed together, so
\* the copy of loop l holds the signals sent and not yet taken by l.
notLoops == <<coordinator, muVars, latchVars, timeVars, brokenVars>>

Buffered(l) == sent - taken[l]

\* workSignal <- struct{}{}: proceeds when every copy has room.
SendSignal ==
    /\ ~closed
    /\ sent < MaxSent
    /\ \A l \in Loops : Buffered(l) < LatchCap
    /\ sent' = sent + 1
    /\ UNCHANGED <<closed, taken, loopPc, ok, checks, spins, notLoops>>

\* close(workSignal)
CloseSignal ==
    /\ ~closed
    /\ closed' = TRUE
    /\ UNCHANGED <<sent, taken, loopPc, ok, checks, spins, notLoops>>

\* A receive of loop l that can proceed: a buffered signal is taken, or the
\* channel is closed and drained and the receive yields the zero value.
CanReceive(l) == Buffered(l) > 0 \/ closed

Receive(l, next) ==
    /\ loopPc[l] = "recv"
    /\ CanReceive(l)
    /\ IF Buffered(l) > 0
       THEN taken' = [taken EXCEPT ![l] = @ + 1] /\ spins' = spins
       ELSE /\ taken' = taken
            /\ spins' = [spins EXCEPT ![l] = IF @ < MaxSpins THEN @ + 1 ELSE @]
    /\ loopPc' = [loopPc EXCEPT ![l] = next]

\* Variant: Loop 1 leaves when its receive finds the channel closed.
BareRecv_StopOnClose ==
    /\ loopPc["bare"] = "recv"
    /\ CanReceive("bare")
    /\ IF Buffered("bare") > 0
       THEN /\ taken' = [taken EXCEPT !["bare"] = @ + 1]
            /\ loopPc' = [loopPc EXCEPT !["bare"] = "check"]
       ELSE /\ taken' = taken
            /\ loopPc' = [loopPc EXCEPT !["bare"] = "returned"]
    /\ UNCHANGED <<sent, closed, ok, checks, spins, notLoops>>

\* Loop 1: <-workSignal, whatever it yields, is followed by checkForWork().
BareRecv ==
    /\ Receive("bare", "check")
    /\ UNCHANGED <<sent, closed, ok, checks, notLoops>>

\* Variant: the explicit loop drops the ok of its receive.
ExplicitRecv_IgnoreOk ==
    /\ Receive("explicit", "test")
    /\ ok' = TRUE
    /\ UNCHANGED <<sent, closed, checks, notLoops>>

\* _, ok := <-workSignal
ExplicitRecv ==
    /\ Receive("explicit", "test")
    /\ ok' = (Buffered("explicit") > 0)
    /\ UNCHANGED <<sent, closed, checks, notLoops>>

\* if !ok { return }
ExplicitTest ==
    /\ loopPc["explicit"] = "test"
    /\ loopPc' = [loopPc EXCEPT !["explicit"] = IF ok THEN "check" ELSE "returned"]
    /\ UNCHANGED <<sent, closed, taken, ok, checks, spins, notLoops>>

\* for range workSignal: the next value, while the channel yields one.
RangeRecv ==
    /\ loopPc["range"] = "recv"
    /\ Buffered("range") > 0
    /\ taken' = [taken EXCEPT !["range"] = @ + 1]
    /\ loopPc' = [loopPc EXCEPT !["range"] = "check"]
    /\ UNCHANGED <<sent, closed, ok, checks, spins, notLoops>>

\* for range workSignal: the channel is closed and drained, the loop ends.
RangeEnd ==
    /\ loopPc["range"] = "recv"
    /\ Buffered("range") = 0
    /\ closed
    /\ loopPc' = [loopPc EXCEPT !["range"] = "returned"]
    /\ UNCHANGED <<sent, closed, taken, ok, checks, spins, notLoops>>

\* checkForWork() returns; the loop goes back to its receive.
CheckForWork(l) ==
    /\ loopPc[l] = "check"
    /\ checks' = [checks EXCEPT ![l] = IF @ < MaxSent + MaxSpins THEN @ + 1 ELSE @]
    /\ loopPc' = [loopPc EXCEPT ![l] = "recv"]
    /\ UNCHANGED <<sent, closed, taken, ok, spins, notLoops>>

LoopStep(l) ==
    \/ l = "bare" /\ BareRecv
    \/ l = "explicit" /\ ExplicitRecv
    \/ l = "explicit" /\ ExplicitTest
    \/ l = "range" /\ RangeRecv
    \/ l = "range" /\ RangeEnd
    \/ CheckForWork(l)

NextLoops ==
    \/ SendSignal
    \/ CloseSignal
    \/ \E l \in Loops : LoopStep(l)

\* The loops as goroutines the scheduler keeps running.
LoopsSpec ==
    /\ Init
    /\ [][NextLoops]_vars
    /\ \A l \in Loops : WF_vars(LoopStep(l))

\* ------------------------------------------------------- the broken service
notBroken == <<coordinator, muVars, latchVars, timeVars, loopVars>>

\* Variant: HandleRequest admits a request only below a goroutine limit.
BrokenHandleRequest_Gated(r) ==
    /\ reqPc[r] = "idle"
    /\ IF r = 1 THEN TRUE ELSE reqPc[r - 1] # "idle"
    /\ activeGoroutines < 1
    /\ reqPc' = [reqPc EXCEPT ![r] = "spawned"]
    /\ answered' = [answered EXCEPT ![r] = "accepted"]
    /\ UNCHANGED <<activeGoroutines, brokenStage1Chan, brokenBusy, notBroken>>

\* HandleRequest: go func() {...}(); w.WriteHeader(http.StatusAccepted).
\* Requests are numbered in the order in which they arrive.
BrokenHandleRequest(r) ==
    /\ reqPc[r] = "idle"
    /\ IF r = 1 THEN TRUE ELSE reqPc[r - 1] # "idle"
    /\ reqPc' = [reqPc EXCEPT ![r] = "spawned"]
    /\ answered' = [answered EXCEPT ![r] = "accepted"]
    /\ UNCHANGED <<activeGoroutines, brokenStage1Chan, brokenBusy, notBroken>>

\* s.trackGoroutine(1) at the start of the spawned goroutine.
BrokenTrackStart(r) ==
    /\ reqPc[r] = "spawned"
    /\ activeGoroutines' = activeGoroutines + 1
    /\ reqPc' = [reqPc EXCEPT ![r] = "select"]
    /\ UNCHANGED <<brokenStage1Chan, brokenBusy, answered, notBroken>>

\* case s.stage1Chan <- job
BrokenSend(r) ==
    /\ reqPc[r] = "select"
    /\ brokenStage1Chan < BrokenStage1Cap
    /\ brokenStage1Chan' = brokenStage1Chan + 1
    /\ reqPc' = [reqPc EXCEPT ![r] = "leaving"]
    /\ UNCHANGED <<activeGoroutines, brokenBusy, answered, notBroken>>

\* case <-time.After(30 * time.Second)
BrokenTimeout(r) ==
    /\ reqPc[r] = "select"
    /\ reqPc' = [reqPc EXCEPT ![r] = "leaving"]
    /\ UNCHANGED <<activeGoroutines, brokenStage1Chan, brokenBusy, answered,
                   notBroken>>

\* defer s.trackGoroutine(-1)
BrokenTrackEnd(r) ==
    /\ reqPc[r] = "leaving"
    /\ activeGoroutines' = activeGoroutines - 1
    /\ reqPc' = [reqPc EXCEPT ![r] = "gone"]
    /\ UNCHANGED <<brokenStage1Chan, brokenBusy, answered, notBroken>>

\* stage1Worker: for job := range s.stage1Chan
BrokenWorkerRecv ==
    /\ brokenStage1Chan > 0
    /\ brokenBusy < brokenStage1Workers
    /\ brokenStage1Chan' = brokenStage1Chan - 1
    /\ brokenBusy' = brokenBusy + 1
    /\ UNCHANGED <<activeGoroutines, reqPc, answered, notBroken>>

\* stage1Worker: s.stage2Chan <- result goes through (it blocks for as long
\* as the later stages are backed up).
BrokenWorkerForward ==
    /\ brokenBusy > 0
    /\ brokenBusy' = brokenBusy - 1
    /\ UNCHANGED <<activeGoroutines, brokenStage1Chan, reqPc, answered,
                   notBroken>>

NextBroken ==
    \/ \E r \in Requests : BrokenHandleRequest(r)
    \/ \E r \in Requests : BrokenTrackStart(r)
    \/ \E r \in Requests : BrokenSend(r)
    \/ \E r \in Requests : BrokenTimeout(r)
    \/ \E r \in Requests : BrokenTrackEnd(r)
    \/ BrokenWorkerRecv
    \/ BrokenWorkerForward

BrokenSpec == Init /\ [][NextBroken]_vars

\* ------------------------------------------------------- lifecycle, contexts
Start ==
    /\ ~started
    /\ started' = TRUE
    /\ UNCHANGED <<maxConcurrent, workSemaphore, chans, metrics, wcCtxDone,
                   exited, pc, jobCtxDone, history, cancelledInQ2>>
    /\ UNCHANGED others

Stop ==
    /\ ~wcCtxDone
    /\ wcCtxDone' = TRUE
    /\ UNCHANGED <<maxConcurrent, workSemaphore, chans, metrics, started,
                   exited, pc, jobCtxDone, history, cancelledInQ2>>
    /\ UNCHANGED others

\* The caller's context ends (cancel, deadline).  Nothing reads it once the
\* job has reached a final position, so it is only modelled before that.
CancelJobCtx(j) ==
    /\ pc[j] \notin {"idle"} \cup FinalPhases
    /\ ~jobCtxDone[j]
    /\ jobCtxDone' = [jobCtxDone EXCEPT ![j] = TRUE]
    /\ cancelledInQ2' = [cancelledInQ2 EXCEPT ![j] = (pc[j] = "q2")]
    /\ UNCHANGED <<workSemaphore, chans, metrics, control, pc, history>>
    /\ UNCHANGED others

\* A worker of stage n, idle in its loop's select, takes the wc.ctx.Done case.
WorkerExit(n) ==
    /\ wcCtxDone
    /\ Idle(n) > 0
    /\ exited' = [exited EXCEPT ![n] = @ + 1]
    /\ UNCHANGED <<maxConcurrent, workSemaphore, chans, metrics, wcCtxDone,
                   started, pc, jobCtxDone, history, cancelledInQ2>>
    /\ UNCHANGED others

\* --------------------------------------------------------------- SubmitJob
\* Calls are numbered in the order in which they start.
CallSubmitJob(j) ==
    /\ pc[j] = "idle"
    /\ IF j = 1 THEN TRUE ELSE pc[j - 1] # "idle"
    /\ Goto(j, "gate")
    /\ UNCHANGED <<workSemaphore, chans, metrics, control, jobCtxDone,
                   history, cancelledInQ2>>
    /\ UNCHANGED others

\* Variant: the send to workSemaphore succeeds whatever its occupancy.
GateAcquire_NoLimit(j) ==
    /\ pc[j] = "gate"
    /\ workSemaphore' = workSemaphore + 1
    /\ acquired' = [acquired EXCEPT ![j] = @ + 1]
    /\ Goto(j, "track")
    /\ UNCHANGED <<chans, metrics, control, jobCtxDone, released, tracked,
                   cancelledInQ2>>
    /\ UNCHANGED others

GateAcquire(j) ==
    /\ pc[j] = "gate"
    /\ workSemaphore < maxConcurrent
    /\ workSemaphore' = workSemaphore + 1
    /\ acquired' = [acquired EXCEPT ![j] = @ + 1]
    /\ Goto(j, "track")
    /\ UNCHANGED <<chans, metrics, control, jobCtxDone, released, tracked,
                   cancelledInQ2>>
    /\ UNCHANGED others

GateCancelled(j) ==
    /\ pc[j] = "gate"
    /\ jobCtxDone[j]
    /\ recordRejection
    /\ Goto(j, "rejected")
    /\ UNCHANGED <<workSemaphore, chans, control, jobCtxDone, history,
                   cancelledInQ2>>
    /\ UNCHANGED others

\* Variant: the gate select has no timer case.
GateTimeout_Never(j) ==
    /\ FALSE
    /\ UNCHANGED vars

GateTimeout(j) ==
    /\ pc[j] = "gate"
    /\ recordRejection
    /\ Goto(j, "rejected")
    /\ UNCHANGED <<workSemaphore, chans, control, jobCtxDone, history,
                   cancelledInQ2>>
    /\ UNCHANGED others

SubmitTrackStart(j) ==
    /\ pc[j] = "track"
    /\ trackJobStart(j)
    /\ Goto(j, "handoff")
    /\ UNCHANGED <<workSemaphore, chans, control, jobCtxDone, acquired,
                   released, cancelledInQ2>>
    /\ UNCHANGED others

\* wc.stage1Chan <- job; return nil
HandoffSend(j) ==
    /\ pc[j] = "handoff"
    /\ Len(stage1Chan) < Stage1Cap
    /\ stage1Chan' = Append(stage1Chan, j)
    /\ Goto(j, "q1")
    /\ UNCHANGED <<workSemaphore, stage2Chan, stage3Chan, metrics, control,
                   jobCtxDone, history, cancelledInQ2>>
    /\ UNCHANGED others

HandoffTimeout(j) ==
    /\ pc[j] = "handoff"
    /\ Goto(j, "subRel")
    /\ UNCHANGED <<workSemaphore, chans, metrics, control, jobCtxDone,
                   history, cancelledInQ2>>
    /\ UNCHANGED others

\* Variant: the send to stage1Chan has gone through when ctx.Done is taken.
HandoffCancelled_AfterSend(j) ==
    /\ pc[j] = "handoff"
    /\ jobCtxDone[j]
    /\ Len(stage1Chan) < Stage1Cap
    /\ stage1Chan' = Append(stage1Chan, j)
    /\ Goto(j, "subRel")
    /\ UNCHANGED <<workSemaphore, stage2Chan, stage3Chan, metrics, control,
                   jobCtxDone, history, cancelledInQ2>>
    /\ UNCHANGED others

HandoffCancelled(j) ==
    /\ pc[j] = "handoff"
    /\ jobCtxDone[j]
    /\ Goto(j, "subRel")
    /\ UNCHANGED <<workSemaphore, chans, metrics, control, jobCtxDone,
                   history, cancelledInQ2>>
    /\ UNCHANGED others

\* Variant: the failed handoff does not give its token back.
SubmitRelease_Skip(j) ==
    /\ pc[j] = "subRel"
    /\ Goto(j, "subEnd")
    /\ UNCHANGED <<workSemaphore, chans, metrics, control, jobCtxDone,
                   history, cancelledInQ2>>
    /\ UNCHANGED others

SubmitRelease(j) ==
    /\ pc[j] = "subRel"
    /\ releaseSemaphore(j)
    /\ Goto(j, "subEnd")
    /\ UNCHANGED <<chans, metrics, control, jobCtxDone, acquired, tracked,
                   cancelledInQ2>>
    /\ UNCHANGED others

\* wc.trackJobEnd(..., false); return errors.New(...)
SubmitTrackEnd(j) ==
    /\ pc[j] = "subEnd"
    /\ trackJobEnd(j, FALSE)
    /\ Goto(j, "degraded")
    /\ UNCHANGED <<workSemaphore, chans, control, jobCtxDone, acquired,
                   released, cancelledInQ2>>
    /\ UNCHANGED others

\* ------------------------------------------------------------------ stage 1
\* Variant: the stage-1 worker reads the job without taking it off the queue.
Stage1Recv_Peek(j) ==
    /\ Idle(1) > 0
    /\ stage1Chan # <<>>
    /\ Head(stage1Chan) = j
    /\ Goto(j, "h1")
    /\ UNCHANGED <<workSemaphore, chans, metrics, control, jobCtxDone,
                   history, cancelledInQ2>>
    /\ UNCHANGED others

Stage1Recv(j) ==
    /\ Idle(1) > 0
    /\ stage1Chan # <<>>
    /\ Head(stage1Chan) = j
    /\ stage1Chan' = Tail(stage1Chan)
    /\ Goto(j, "h1")
    /\ UNCHANGED <<workSemaphore, stage2Chan, stage3Chan, metrics, control,
                   jobCtxDone, history, cancelledInQ2>>
    /\ UNCHANGED others

\* Variant: the worker leaves the handoff without having sent the result.
Stage1Send_Lost(j) ==
    /\ pc[j] = "h1"
    /\ Len(stage2Chan) < Stage2Cap
    /\ Goto(j, "q2")
    /\ UNCHANGED <<workSemaphore, chans, metrics, control, jobCtxDone,
                   history, cancelledInQ2>>
    /\ UNCHANGED others

Stage1Send(j) ==
    /\ pc[j] = "h1"
    /\ Len(stage2Chan) < Stage2Cap
    /\ stage2Chan' = Append(stage2Chan, j)
    /\ Goto(j, "q2")
    /\ UNCHANGED <<workSemaphore, stage1Chan, stage3Chan, metrics, control,
                   jobCtxDone, history, cancelledInQ2>>
    /\ UNCHANGED others

Stage1JobCancelled(j) ==
    /\ pc[j] = "h1"
    /\ jobCtxDone[j]
    /\ Goto(j, "rel1")
    /\ UNCHANGED <<workSemaphore, chans, metrics, control, jobCtxDone,
                   history, cancelledInQ2>>
    /\ UNCHANGED others

\* Variant: the stage-1 handoff select has no wc.ctx.Done case.
Stage1Stopped_Never(j) ==
    /\ FALSE
    /\ UNCHANGED vars

Stage1Stopped(j) ==
    /\ pc[j] = "h1"
    /\ wcCtxDone
    /\ Goto(j, "dropped1")
    /\ UNCHANGED <<workSemaphore, chans, metrics, control, jobCtxDone,
                   history, cancelledInQ2>>
    /\ UNCHANGED others

Stage1Release(j) ==
    /\ pc[j] = "rel1"
    /\ releaseSemaphore(j)
    /\ Goto(j, "end1")
    /\ UNCHANGED <<chans, metrics, control, jobCtxDone, acquired, tracked,
                   cancelledInQ2>>
    /\ UNCHANGED others

\* Variant: after abandoning the job the worker still forwards it to stage 2.
Stage1TrackEnd_Forward(j) ==
    /\ pc[j] = "end1"
    /\ trackJobEnd(j, FALSE)
    /\ stage2Chan' = Append(stage2Chan, j)
    /\ Goto(j, "q2")
    /\ UNCHANGED <<workSemaphore, stage1Chan, stage3Chan, control, jobCtxDone,
                   acquired, released, cancelledInQ2>>
    /\ UNCHANGED others

Stage1TrackEnd(j) ==
    /\ pc[j] = "end1"
    /\ trackJobEnd(j, FALSE)
    /\ Goto(j, "abandoned")
    /\ UNCHANGED <<workSemaphore, chans, control, jobCtxDone, acquired,
                   released, cancelledInQ2>>
    /\ UNCHANGED others

\* ------------------------------------------------------------------ stage 2
Stage2Recv(j) ==
    /\ Idle(2) > 0
    /\ stage2Chan # <<>>
    /\ Head(stage2Chan) = j
    /\ stage2Chan' = Tail(stage2Chan)
    /\ Goto(j, "h2")
    /\ UNCHANGED <<workSemaphore, stage1Chan, stage3Chan, metrics, control,
                   jobCtxDone, history, cancelledInQ2>>
    /\ UNCHANGED others

\* Variant: the stage-2 worker puts its result back into its own queue.
Stage2Send_Requeue(j) ==
    /\ pc[j] = "h2"
    /\ Len(stage2Chan) < Stage2Cap
    /\ stage2Chan' = Append(stage2Chan, j)
    /\ Goto(j, "q2")
    /\ UNCHANGED <<workSemaphore, stage1Chan, stage3Chan, metrics, control,
                   jobCtxDone, history, cancelledInQ2>>
    /\ UNCHANGED others

Stage2Send(j) ==
    /\ pc[j] = "h2"
    /\ Len(stage3Chan) < Stage3Cap
    /\ stage3Chan' = Append(stage3Chan, j)
    /\ Goto(j, "q3")
    /\ UNCHANGED <<workSemaphore, stage1Chan, stage2Chan, metrics, control,
                   jobCtxDone, history, cancelledInQ2>>
    /\ UNCHANGED others

Stage2Stopped(j) ==
    /\ pc[j] = "h2"
    /\ wcCtxDone
    /\ Goto(j, "dropped2")
    /\ UNCHANGED <<workSemaphore, chans, metrics, control, jobCtxDone,
                   history, cancelledInQ2>>
    /\ UNCHANGED others

\* ------------------------------------------------------------------ stage 3
Stage3Recv(j) ==
    /\ Idle(3) > 0
    /\ stage3Chan # <<>>
    /\ Head(stage3Chan) = j
    /\ stage3Chan' = Tail(stage3Chan)
    /\ Goto(j, "p3")
    /\ UNCHANGED <<workSemaphore, stage1Chan, stage2Chan, metrics, control,
                   jobCtxDone, history, cancelledInQ2>>
    /\ UNCHANGED others

\* Variant: stage 3 finishes a job without giving its token back.
Stage3Release_Skip(j) ==
    /\ pc[j] = "p3"
    /\ Goto(j, "end3")
    /\ UNCHANGED <<workSemaphore, chans, metrics, control, jobCtxDone,
                   history, cancelledInQ2>>
    /\ UNCHANGED others

Stage3Release(j) ==
    /\ pc[j] = "p3"
    /\ releaseSemaphore(j)
    /\ Goto(j, "end3")
    /\ UNCHANGED <<chans, metrics, control, jobCtxDone, acquired, tracked,
                   cancelledInQ2>>
    /\ UNCHANGED others

Stage3TrackEnd(j) ==
    /\ pc[j] = "end3"
    /\ trackJobEnd(j, TRUE)
    /\ Goto(j, "completed")
    /\ UNCHANGED <<workSemaphore, chans, control, jobCtxDone, acquired,
                   released, cancelledInQ2>>
    /\ UNCHANGED others

\* -------------------------------------------------------------------- Next
SubmitStep(j) ==
    \/ GateAcquire(j)
    \/ GateCancelled(j)
    \/ GateTimeout(j)
    \/ SubmitTrackStart(j)
    \/ HandoffSend(j)
    \/ HandoffTimeout(j)
    \/ HandoffCancelled(j)
    \/ SubmitRelease(j)
    \/ SubmitTrackEnd(j)

PipelineStep(j) ==
    \/ Stage1Recv(j)
    \/ Stage1Send(j)
    \/ Stage1JobCancelled(j)
    \/ Stage1Release(j)
    \/ Stage1TrackEnd(j)
    \/ Stage2Recv(j)
    \/ Stage2Send(j)
    \/ Stage3Recv(j)
    \/ Stage3Release(j)
    \/ Stage3TrackEnd(j)

ShutdownStep ==
    \/ Stop
    \/ \E n \in Stages : WorkerExit(n)
    \/ \E j \in Jobs : Stage1Stopped(j)
    \/ \E j \in Jobs : Stage2Stopped(j)

Next ==
    \/ Start
    \/ \E j \in Jobs : CallSubmitJob(j)
    \/ \E j \in Jobs : CancelJobCtx(j)
    \/ \E j \in Jobs : SubmitStep(j)
    \/ \E j \in Jobs : PipelineStep(j)
    \/ ShutdownStep

Spec == Init /\ [][Next]_vars

\* The coordinator while Stop is never called.  The Go scheduler runs every
\* runnable goroutine, so the worker pools as a whole keep taking steps.
NextRunning ==
    \/ Start
    \/ \E j \in Jobs : CallSubmitJob(j)
    \/ \E j \in Jobs : CancelJobCtx(j)
    \/ \E j \in Jobs : SubmitStep(j)
    \/ \E j \in Jobs : PipelineStep(j)

LiveSpec ==
    /\ Init
    /\ [][NextRunning]_vars
    /\ WF_vars(\E j \in Jobs : PipelineStep(j))

\* Steps of the stage worker that holds (or is about to receive) job j.
WorkerStep(j) ==
    \/ PipelineStep(j)
    \/ Stage1Stopped(j)
    \/ Stage2Stopped(j)

\* The coordinator with Stop, under the Go scheduler: a worker goroutine that
\* can take a step (a select with a ready case, a receive from a non-empty
\* channel) eventually takes one.
FairSpec ==
    /\ Init
    /\ [][Next]_vars
    /\ \A j \in Jobs : WF_vars(WorkerStep(j))
    /\ \A n \in Stages : WF_vars(WorkerExit(n))

\* A caller whose timers never expire and whose context is never cancelled:
\* in each select of SubmitJob only the channel send remains.
PatientSubmitStep(j) ==
    \/ GateAcquire(j)
    \/ SubmitTrackStart(j)
    \/ HandoffSend(j)

\* The steps of the workers on a job whose context is never cancelled.
CompletionStep(j) ==
    \/ Stage1Recv(j)
    \/ Stage1Send(j)
    \/ Stage2Recv(j)
    \/ Stage2Send(j)
    \/ Stage3Recv(j)
    \/ Stage3Release(j)
    \/ Stage3TrackEnd(j)

NextPatient ==
    \/ Start
    \/ \E j \in Jobs : CallSubmitJob(j)
    \/ \E j \in Jobs : PatientSubmitStep(j)
    \/ \E j \in Jobs : CompletionStep(j)

\* Back-to-back submissions with generous timeouts, no cancellation and no
\* Stop.  Callers and workers are goroutines the scheduler keeps running.
PatientSpec ==
    /\ Init
    /\ [][NextPatient]_vars
    /\ \A j \in Jobs : WF_vars(PatientSubmitStep(j))
    /\ \A j \in Jobs : WF_vars(CompletionStep(j))

\* A SubmitJob call that starts when Stop has already been called.
CallSubmitJobAfterStop(j) ==
    /\ wcCtxDone
    /\ CallSubmitJob(j)

\* The coordinator when every SubmitJob call starts after Stop.
NextAfterStop ==
    \/ Start
    \/ \E j \in Jobs : CallSubmitJobAfterStop(j)
    \/ \E j \in Jobs : CancelJobCtx(j)
    \/ \E j \in Jobs : SubmitStep(j)
    \/ \E j \in Jobs : PipelineStep(j)
    \/ ShutdownStep

AfterStopSpec == Init /\ [][NextAfterStop]_vars

\* The 100 ms timer of the gate fires on a caller blocked in the select: the
\* semaphore is full.
BlockedGateTimeout(j) ==
    /\ workSemaphore = maxConcurrent
    /\ GateTimeout(j)

\* The 1 s timer of the handoff fires on a caller blocked in the select:
\* stage1Chan is full.
BlockedHandoffTimeout(j) ==
    /\ Len(stage1Chan) = Stage1Cap
    /\ HandoffTimeout(j)

\* SubmitJob on a machine that is never stalled: a select that finds a send
\* ready takes it (or a cancellation that is ready too) at once, and a timer
\* only fires on a select that is blocked.
PromptSubmitStep(j) ==
    \/ GateAcquire(j)
    \/ GateCancelled(j)
    \/ BlockedGateTimeout(j)
    \/ SubmitTrackStart(j)
    \/ HandoffSend(j)
    \/ BlockedHandoffTimeout(j)
    \/ HandoffCancelled(j)
    \/ SubmitRelease(j)
    \/ SubmitTrackEnd(j)

NextPrompt ==
    \/ Start
    \/ \E j \in Jobs : CallSubmitJob(j)
    \/ \E j \in Jobs : CancelJobCtx(j)
    \/ \E j \in Jobs : PromptSubmitStep(j)
    \/ \E j \in Jobs : PipelineStep(j)
    \/ ShutdownStep

PromptSpec == Init /\ [][NextPrompt]_vars

\* ------------------------------------------------------------- vocabulary
\* Positions of the caller's goroutine inside SubmitJob.
InSubmit == {"gate", "track", "handoff", "subRel", "subEnd"}

\* Positions at which the next step of the owning goroutine is <-workSemaphore.
AtRelease == {"subRel", "rel1", "p3"}

\* Jobs whose token is outstanding.
HoldingToken == {j \in Jobs : acquired[j] > released[j]}

InAnyChan(j) ==
    InChan(stage1Chan, j) \/ InChan(stage2Chan, j) \/ InChan(stage3Chan, j)

\* Number of slots of channel ch that hold job j.
Occurrences(ch, j) == Cardinality({i \in 1..Len(ch) : ch[i] = j})

AllWorkersExited == started /\ \A n \in Stages : exited[n] = PoolSize(n)

TypeOK ==
    /\ maxConcurrent \in 1..MaxConcurrentLimit
    /\ workSemaphore \in 0..maxConcurrent
    /\ activeJobs \in Int
    /\ rejectedJobs \in 0..MaxJobs
    /\ completedJobs \in 0..MaxJobs
    /\ \A n \in Stages : exited[n] \in 0..PoolSize(n)
    /\ \A j \in Jobs : pc[j] = "q1" <=> InChan(stage1Chan, j)
    /\ \A j \in Jobs : pc[j] = "q2" <=> InChan(stage2Chan, j)
    /\ \A j \in Jobs : pc[j] = "q3" <=> InChan(stage3Chan, j)
    /\ Len(stage1Chan) <= Stage1Cap
    /\ Len(stage2Chan) <= Stage2Cap
    /\ Len(stage3Chan) <= Stage3Cap

\* ------------------------------------------------------------------ claims

\* C1: the items that hold an admission token (acquired, not yet released:
\* an item reaches Completed, Rejected or Abandoned when it gives its token
\* back) are exactly the occupancy of workSemaphore, and there are never more
\* of them than maxConcurrent, however many SubmitJob calls run concurrently.
C1_AdmissionBound ==
    /\ Cardinality(HoldingToken) = workSemaphore
    /\ Cardinality(HoldingToken) <= maxConcurrent

\* A call waits at the gate while every token is taken.
C1_Witness ==
    \E j \in Jobs :
        /\ pc[j] = "gate"
        /\ Cardinality(HoldingToken) = maxConcurrent

\* C2 (as claimed): in every reachable state the occupancy of workSemaphore
\* equals activeJobs.
C2_TokensEqualActive == workSemaphore = activeJobs

\* C2 (amended): the occupancy of workSemaphore and activeJobs differ exactly
\* by the goroutines that are between their semaphore operation and their
\* metrics update: those that acquired and have not yet called trackJobStart,
\* against those that released and have not yet called trackJobEnd.  The two
\* are equal whenever no goroutine is in between.
C2_TokensEqualActiveModuloInFlight ==
    workSemaphore - Busy({"track"})
        = activeJobs - Busy({"subEnd", "end1", "end3"})

\* One call has acquired and not yet tracked while a stage-3 worker has
\* released and not yet tracked.
C2_Witness ==
    \E j, k \in Jobs : pc[j] = "track" /\ pc[k] = "end3"

\* C3: while Stop is never called and the workers run, every job whose
\* SubmitJob returned nil (it was placed in stage1Chan) eventually is
\* Completed or Abandoned, with its token released once and its activeJobs
\* entry removed.
C3_AcceptedReachesTerminal ==
    \A j \in Jobs :
        (started /\ pc[j] = "q1")
            ~> (/\ pc[j] \in {"completed", "abandoned"}
                /\ released[j] = 1
                /\ tracked[j] = 0)

\* One accepted job was abandoned at the stage-1 handoff, another completed.
C3_Witness ==
    \E j, k \in Jobs : pc[j] = "abandoned" /\ pc[k] = "completed"

\* C4 (as claimed): once Stop was called, every worker has returned and no
\* SubmitJob call is in progress, the semaphore is empty and activeJobs is 0.
C4_DrainReleasesAll ==
    (wcCtxDone /\ AllWorkersExited /\ \A j \in Jobs : pc[j] \notin InSubmit)
        => (workSemaphore = 0 /\ activeJobs = 0)

\* C5: no job has more receives from workSemaphore made on its behalf than
\* the one token it acquired, and whenever a goroutine is about to receive
\* from workSemaphore the channel holds a token, so the receive does not block.
C5_ReleaseAtMostOnce ==
    \A j \in Jobs :
        /\ released[j] <= 1
        /\ released[j] <= acquired[j]
        /\ pc[j] \in AtRelease => workSemaphore > 0

\* One job was abandoned by stage 1 (token released on the cancellation
\* path) and a stage-3 worker is about to release another job's token.
C5_Witness ==
    \E j, k \in Jobs : pc[j] = "abandoned" /\ released[j] = 1 /\ pc[k] = "p3"

\* C6 (as claimed): a job whose context was cancelled while it sat in
\* stage2Chan is never recorded as completed.
C6_CancelledInQueue2NotCompleted ==
    \A j \in Jobs : ~(cancelledInQ2[j] /\ pc[j] = "completed")

\* C7 (as claimed): at each handoff the send races against the job's own
\* cancellation: a worker at the stage-1 or the stage-2 handoff whose job's
\* context is cancelled can take the cancellation case of its select.
C7_HandoffRacesCancellation ==
    \A j \in Jobs :
        (pc[j] \in {"h1", "h2"} /\ jobCtxDone[j])
            => ENABLED Stage1JobCancelled(j)

\* C8: SubmitJob has no loop, and at each of its positions the calling
\* goroutine has a step it can take (at the two selects the timer case, at
\* the release a token in the channel): the call cannot block.
C8_SubmitNeverBlocks ==
    \A j \in Jobs : pc[j] \in InSubmit => ENABLED SubmitStep(j)

\* A call waits at a full gate, its context live, after Stop and after every
\* worker has returned.
C8_Witness ==
    \E j \in Jobs :
        /\ pc[j] = "gate"
        /\ ~jobCtxDone[j]
        /\ workSemaphore = maxConcurrent
        /\ wcCtxDone
        /\ AllWorkersExited

\* C9: a call that leaves the gate with an error has acquired no token and
\* changes nothing but rejectedJobs, which grows by one.
C9_GateRejectionNoSideEffect ==
    [][\A j \in Jobs :
          (pc[j] = "gate" /\ pc'[j] = "rejected")
              => /\ acquired'[j] = 0
                 /\ rejectedJobs' = rejectedJobs + 1
                 /\ UNCHANGED <<workSemaphore, activeJobs, completedJobs,
                                stage1Chan, stage2Chan, stage3Chan>>]_vars

\* A call was rejected at a full gate while another job is in the pipeline.
C9_Witness ==
    \E j, k \in Jobs :
        /\ pc[j] = "rejected"
        /\ rejectedJobs = 1
        /\ workSemaphore = maxConcurrent
        /\ pc[k] = "q2"

\* C10: a call that acquired a token and failed the stage-1 handoff has
\* released that token, has removed its own entry from activeJobs (which
\* counts exactly the jobs between trackJobStart and trackJobEnd), and its
\* job is in no stage channel.
C10_FailedHandoffReleases ==
    /\ \A j \in Jobs : tracked[j] \in {0, 1}
    /\ activeJobs = Cardinality({j \in Jobs : tracked[j] = 1})
    /\ \A j \in Jobs :
           pc[j] = "degraded"
               => /\ acquired[j] = 1
                  /\ released[j] = 1
                  /\ tracked[j] = 0
                  /\ ~InAnyChan(j)

\* A handoff timed out on a full stage1Chan (context live) and the token it
\* gave back is free again.
C10_Witness ==
    \E j \in Jobs :
        /\ pc[j] = "degraded"
        /\ ~jobCtxDone[j]
        /\ Len(stage1Chan) = Stage1Cap
        /\ workSemaphore < maxConcurrent

\* C11: once Stop was called and the pools were started, every worker of the
\* three pools eventually has returned from its loop, whether it was idle at
\* its receive or blocked in the handoff to the next stage.
C11_WorkersTerminateAfterStop ==
    (started /\ wcCtxDone) ~> AllWorkersExited

\* Every worker has returned, one of them from a stage-1 handoff it left on
\* wc.ctx.Done, another from the stage-2 handoff.
C11_Witness ==
    /\ AllWorkersExited
    /\ \E j, k \in Jobs : pc[j] = "dropped1" /\ pc[k] = "dropped2"

\* C12 (as claimed): a SubmitJob call that starts after Stop is never
\* accepted and taken up by a stage worker.  Stated for the runs in which
\* every call starts after Stop: no stage-1 worker ever holds a job.
C12_NoAdmissionAfterStop ==
    \A j \in Jobs : pc[j] # "h1"

\* C13: with timers that never expire, no cancellation and the workers
\* running, every submitted item is eventually admitted and Completed, also
\* when more items are submitted than there are tokens (N > M) and the stage
\* channels are as small as 1: no deadlock.
C13_AllSubmittedComplete ==
    \A j \in Jobs : (started /\ pc[j] = "gate") ~> (pc[j] = "completed")

\* More items than tokens were submitted and all of them are Completed.
C13_Witness ==
    /\ maxConcurrent < MaxJobs
    /\ Stage1Cap = 1
    /\ completedJobs = MaxJobs
    /\ \A j \in Jobs : pc[j] = "completed"

\* The per-item states of the coordinator, in pipeline order: not yet
\* admitted, Admitted (token held, on the way into stage1Chan), InStage1,
\* InStage2, InStage3, and the positions at which the item's journey is over.
ItemState(p) ==
    CASE p \in {"idle", "gate"} -> 0
      [] p \in {"track", "handoff", "subRel", "subEnd", "q1"} -> 1
      [] p \in {"h1", "rel1", "end1"} -> 2
      [] p \in {"q2", "h2"} -> 3
      [] p \in {"q3", "p3", "end3"} -> 4
      [] p \in FinalPhases -> 5

\* C14: an item only moves forward: its state never goes back, a stage
\* worker receives it only from that stage's queue, the queue of stage n + 1
\* is only entered from the hands of a stage-n worker, Completed is only
\* entered from stage 3, no stage receives it a second time, and nothing
\* leaves a final position.
C14_ForwardOnly ==
    [][\A j \in Jobs :
          pc'[j] # pc[j]
              => /\ pc[j] \notin FinalPhases
                 /\ ItemState(pc'[j]) >= ItemState(pc[j])
                 /\ pc'[j] = "h1" => pc[j] = "q1"
                 /\ pc'[j] = "q2" => pc[j] = "h1"
                 /\ pc'[j] = "h2" => pc[j] = "q2"
                 /\ pc'[j] = "q3" => pc[j] = "h2"
                 /\ pc'[j] = "p3" => pc[j] = "q3"
                 /\ pc'[j] = "completed" => pc[j] = "end3"
                 /\ pc'[j] = "abandoned" => pc[j] = "end1"
                 /\ pc'[j] = "rejected" => pc[j] = "gate"]_vars

\* One item went through the three stages to Completed, another was
\* rejected at the gate.
C14_Witness ==
    \E j, k \in Jobs :
        /\ pc[j] = "completed"
        /\ completedJobs = 1
        /\ pc[k] = "rejected"

\* C15: every item is in at most one slot of the three stage channels taken
\* together: never in two channels at once, never twice in one channel.
C15_AtMostOneQueue ==
    \A j \in Jobs :
        Occurrences(stage1Chan, j) + Occurrences(stage2Chan, j)
            + Occurrences(stage3Chan, j) <= 1

\* Two items sit in two different stage channels at the same time, one of
\* them having been forwarded by a stage-1 worker.
C15_Witness ==
    \E j, k \in Jobs :
        /\ Occurrences(stage1Chan, j) = 1
        /\ Occurrences(stage2Chan, k) = 1

\* C16: wc.mu is held only by a goroutine that is between Lock and Unlock
\* of a metrics method, where its next statement (the counter update, then
\* Unlock) can always be executed: the holder waits on nothing.  A goroutine
\* waiting in Lock gets the mutex as soon as it is free, so GetMetrics
\* returns; and no step of GetMetrics changes a field of the coordinator.
C16_MutexNeverHeldAcrossWait ==
    /\ [](/\ mu # 0 => /\ mpc[mu] \in {"held", "unlock"}
                       /\ ENABLED MetricStep(mu)
          /\ \A g \in MetricCallers :
                 /\ mpc[g] \in {"held", "unlock"} => mu = g
                 /\ (mpc[g] = "lock" /\ mu = 0) => ENABLED MuLock(g))
    /\ [][mpc'[Observer] # mpc[Observer]
             => UNCHANGED <<metrics, pipeline, history>>]_vars

\* A job's goroutine holds the mutex inside trackJobEnd while GetMetrics and
\* another job's goroutine wait in Lock.
C16_Witness ==
    \E j, k \in Jobs :
        /\ mu = j
        /\ mcall[j].fn = "trackJobEnd"
        /\ mpc[k] = "lock"
        /\ mpc[Observer] = "lock"

\* C17: a goroutine inside producer() always has a case of its select it
\* can take, the send or the default, whatever the manager is doing and
\* however many producers are signalling: the signal operation never blocks.
C17_ProducerNeverBlocks ==
    \A p \in Producers : producerPc[p] = "select" => ENABLED ProducerStep(p)

\* Every producer is inside producer() while a signal is already pending and
\* the manager is busy in checkForWork.
C17_Witness ==
    /\ \A p \in Producers : producerPc[p] = "select"
    /\ workSignal = LatchCap
    /\ managerPc = "check"

\* C18: there is never more than one pending wake-up; whenever one or more
\* signals were issued since checkForWork last began, exactly one wake-up is
\* pending; and the manager then begins checkForWork again, after the last
\* of them.
C18_BurstCollapsesToOneWakeup ==
    /\ [](workSignal <= 1 /\ (burst >= 1 => workSignal = 1))
    /\ (burst >= 1) ~> (burst = 0)

\* Three signals were issued while the manager was busy in checkForWork, and
\* one wake-up is pending.
C18_Witness ==
    /\ managerPc = "check"
    /\ burst >= 3
    /\ workSignal = 1

\* C19: the stamp put on the job in SubmitJob is the CreatedAt of the
\* result at every later stage, and the latency passed to trackJobEnd at
\* Completed is the time since that stamp, which is at least the sum of the
\* three stages' minimum processing times.
C19_LatencyFromSubmission ==
    /\ tpc \in {"s1", "s2", "done"} => resultCreatedAt = jobCreatedAt
    /\ tpc = "done"
           => /\ latency = now - jobCreatedAt
              /\ latency >= Stage1MinMs + Stage2MinMs + Stage3MinMs

\* An item stamped at a time other than 0 completed with the smallest
\* latency there can be.
C19_Witness ==
    /\ tpc = "done"
    /\ jobCreatedAt > 0
    /\ latency = Stage1MinMs + Stage2MinMs + Stage3MinMs

\* Request goroutines between trackGoroutine(1) and trackGoroutine(-1).
LiveRequestGoroutines == {r \in Requests : reqPc[r] \in {"select", "leaving"}}

\* C20: activeGoroutines counts the live request goroutines, and nothing
\* limits them: whatever their number and whatever the state of the
\* pipeline, the next request is handled, its goroutine is spawned and
\* starts, and every request handled was answered "accepted".
C20_NoLimitOnRequestGoroutines ==
    /\ activeGoroutines = Cardinality(LiveRequestGoroutines)
    /\ \A r \in Requests :
           /\ (reqPc[r] = "idle" /\ \A q \in 1..(r - 1) : reqPc[q] # "idle")
                  => ENABLED BrokenHandleRequest(r)
           /\ reqPc[r] = "spawned" => ENABLED BrokenTrackStart(r)
           /\ reqPc[r] # "idle" => answered[r] = "accepted"

\* All N requests have a live goroutine at once, more than any
\* maxConcurrent of the fixed coordinator in this model, all were answered
\* "accepted", while s.stage1Chan is full and its workers are busy.
C20_Witness ==
    /\ activeGoroutines = MaxRequests
    /\ MaxRequests > MaxConcurrentLimit
    /\ \A r \in Requests : answered[r] = "accepted"
    /\ brokenStage1Chan = BrokenStage1Cap
    /\ brokenBusy = brokenStage1Workers

\* Runs of checkForWork() that loop l has begun and not finished.
Pending(l) ==
    IF loopPc[l] = "check" \/ (l = "explicit" /\ loopPc[l] = "test" /\ ok)
    THEN 1 ELSE 0

\* The loops that watch for the close of the channel.
ClosingLoops == {"explicit", "range"}

\* C21: the explicit-receive loop and the for-range loop are equivalent.
\* Fed the same signals and the same close, each has run checkForWork once
\* for every signal it received (counting the run in progress), neither
\* runs it for a receive that yielded no signal, each returns only when the
\* channel is closed and drained, having run checkForWork once per signal
\* sent, and once the channel is closed both do return.
C21_RangeEqualsExplicit ==
    /\ [](\A l \in ClosingLoops :
            /\ checks[l] + Pending(l) = taken[l]
            /\ checks[l] <= sent
            /\ spins[l] <= (IF l = "explicit" THEN 1 ELSE 0)
            /\ (spins[l] = 1 => loopPc[l] \in {"test", "returned"} /\ ~ok)
            /\ (loopPc[l] = "returned" =>
                    closed /\ taken[l] = sent /\ checks[l] = sent))
    /\ (closed ~> (\A l \in ClosingLoops :
                      loopPc[l] = "returned" /\ checks[l] = sent))

\* Both loops have returned after three signals and the close, each having
\* run checkForWork three times.
C21_Witness ==
    /\ closed
    /\ sent = MaxSent
    /\ \A l \in ClosingLoops : loopPc[l] = "returned" /\ checks[l] = MaxSent

\* C22: Loop 1 never returns.  Once workSignal is closed its receive can
\* always proceed, and after the buffered signals are drained it goes on
\* running checkForWork with no signal received: it is in checkForWork again
\* and again, and its runs come to outnumber the signals sent.  While the
\* channel is open Loop 1 and Loop 2 both run checkForWork once per signal
\* received, never without one, and neither returns.
C22_BareLoopSpinsAfterClose ==
    /\ [](/\ loopPc["bare"] # "returned"
          /\ (closed /\ loopPc["bare"] = "recv" => ENABLED BareRecv)
          /\ (spins["bare"] < MaxSpins =>
                  checks["bare"] + Pending("bare") = taken["bare"] + spins["bare"])
          /\ (~closed => \A l \in {"bare", "range"} :
                  /\ checks[l] + Pending(l) = taken[l]
                  /\ spins[l] = 0
                  /\ loopPc[l] \in {"recv", "check"}
                  /\ (loopPc[l] = "recv" /\ Buffered(l) = 0 =>
                          ~ENABLED LoopStep(l))))
    /\ (closed ~> (spins["bare"] = MaxSpins /\ checks["bare"] > sent))
    /\ [](closed => <>(loopPc["bare"] = "check"))

\* After the close Loop 1 has run checkForWork more often than there were
\* signals, while Loop 2 has returned.
C22_Witness ==
    /\ closed
    /\ checks["bare"] > sent
    /\ spins["bare"] = MaxSpins
    /\ loopPc["range"] = "returned"

\* C23 (as claimed): the active count the coordinator keeps, and GetMetrics
\* returns, is never negative and never above the maximum concurrency.
C23_ActiveWithinLimit ==
    /\ 0 <= activeJobs
    /\ activeJobs <= maxConcurrent

\* FixedService.HandleRequest for a client that stays connected: the 5 s
\* of its context outlast the timers of SubmitJob (100 ms and 1 s), so
\* inside SubmitJob the context is live and only the sends and the timers
\* of its selects remain.
HandlerSubmitStep(j) ==
    \/ GateAcquire(j)
    \/ GateTimeout(j)
    \/ SubmitTrackStart(j)
    \/ HandoffSend(j)
    \/ HandoffTimeout(j)
    \/ SubmitRelease(j)
    \/ SubmitTrackEnd(j)

\* SubmitJob returned nil, HandleRequest wrote 202 Accepted and returns: the
\* deferred cancel() closes the context the job carries.  (After an error
\* return nothing holds the context any more.)
HandleRequestReturn(j) ==
    /\ pc[j] \notin InSubmit
    /\ CancelJobCtx(j)

NextHandler ==
    \/ Start
    \/ \E j \in Jobs : CallSubmitJob(j)
    \/ \E j \in Jobs : HandlerSubmitStep(j)
    \/ \E j \in Jobs : HandleRequestReturn(j)
    \/ \E j \in Jobs : PipelineStep(j)

\* Requests served by HandleRequest while Stop is never called.
HandlerSpec == Init /\ [][NextHandler]_vars

\* C24 (as claimed): the handler returning and cancelling its request
\* context never causes an accepted job to be abandoned.  With clients that
\* stay connected the handler's return is the only cancellation, so no
\* stage-1 worker ever takes the job.ctx.Done case for an accepted job.
C24_AcceptedNeverAbandoned ==
    \A j \in Jobs : pc[j] \notin {"rel1", "end1", "abandoned"}

\* SubmitJob calls that have returned an error: at the gate ("rejected") or
\* at the stage-1 handoff ("degraded").
ReturnedError == {j \in Jobs : pc[j] \in {"rejected", "degraded"}}

\* C25 (as claimed): every SubmitJob call that returns an error, at the
\* gate or at the stage-1 handoff, has incremented the rejected counter
\* exactly once: rejectedJobs counts the calls that returned an error.
C25_ErrorsCountedAsRejected ==
    rejectedJobs = Cardinality(ReturnedError)

\* Positions of a SubmitJob call that is returning, or has returned, an
\* error.
ErrorPath == {"rejected", "subRel", "subEnd", "degraded"}

\* C26: an item whose SubmitJob call returns an error is in no stage queue,
\* was in none before (its call goes from the gate or the handoff straight
\* to the error return), stays where the error return left it, so no stage
\* worker ever receives it, and is not counted in completedJobs, which counts
\* exactly the items stage 3 finished, none of them an error return.
\* Conversely a call leaves SubmitJob without an error only by the step that
\* puts the item at the tail of stage1Chan, with its token acquired and not
\* released and its trackJobStart done.
C26_ErrorNeverProcessed ==
    /\ [](/\ \A j \in Jobs : pc[j] \in ErrorPath => ~InAnyChan(j)
          /\ completedJobs = Cardinality({j \in Jobs : pc[j] = "completed"})
          /\ completedJobs + Cardinality(ReturnedError) <= MaxJobs)
    /\ [][\A j \in Jobs :
            /\ (pc[j] \in ErrorPath => pc'[j] \in ErrorPath)
            /\ (pc[j] \notin ErrorPath /\ pc'[j] \in ErrorPath =>
                    pc[j] \in {"gate", "handoff"} /\ UNCHANGED chans)
            /\ (pc[j] \in InSubmit /\ pc'[j] \notin InSubmit \cup ErrorPath =>
                    /\ pc[j] = "handoff"
                    /\ stage1Chan' = Append(stage1Chan, j)
                    /\ acquired'[j] = 1 /\ released'[j] = 0 /\ tracked'[j] = 1
                    /\ workSemaphore' >= 1
                    /\ UNCHANGED metrics)
            /\ (InChan(stage1Chan', j) /\ ~InChan(stage1Chan, j) =>
                    pc[j] = "handoff" /\ pc'[j] = "q1")]_vars

\* One call returned the handoff error and another item was completed;
\* only the latter is counted.
C26_Witness ==
    \E j, k \in Jobs :
        /\ pc[j] = "degraded"
        /\ pc[k] = "completed"
        /\ completedJobs = 1
        /\ stage1Chan = <<>>

====
